---- MODULE Spec2Model ----
(***************************************************************************)
(* Model of "Obesity App/app.py": a Streamlit script that is re-run from   *)
(* top to bottom after every user action.  The state is the widget state   *)
(* Streamlit keeps between reruns (st.session_state for the 14 keyed       *)
(* predictor widgets, the two un-keyed BMI number inputs) together with    *)
(* what the last run built and rendered.                                   *)
(***************************************************************************)
EXTENDS Integers, Sequences, FiniteSets, TLC

(***************************************************************************)
(* Python floats.  TLC integers are 32 bit wide, so a binary64 significand *)
(* is kept as a natural number in little-endian limbs of 15 bits, and a    *)
(* positive float is [m, e] with 2^52 <= m < 2^53 and value m * 2^e.       *)
(* Every float operation rounds to nearest, ties to even (IEEE 754).       *)
(***************************************************************************)
LimbBits == 15
Base == 2 ^ LimbBits
MantBits == 53

\* Op applied to the value of e.  TLC passes operator arguments unevaluated
\* and evaluates them where they are first used; binding through a
\* singleton set evaluates e first and keeps the evaluation shallow.
Strict(e, Op(_)) == CHOOSE r \in {Op(v) : v \in {e}} : TRUE

RECURSIVE Pow2(_)
Pow2(n) == IF n = 0 THEN 1 ELSE 2 * Pow2(n - 1)

RECURSIVE BigNorm(_)
BigNorm(a) ==
    IF a = << >> THEN << >>
    ELSE IF a[Len(a)] = 0 THEN BigNorm(SubSeq(a, 1, Len(a) - 1))
    ELSE a

RECURSIVE BigOfInt(_)
BigOfInt(n) == IF n = 0 THEN << >> ELSE <<n % Base>> \o BigOfInt(n \div Base)

RECURSIVE BigAddC(_, _, _)
BigAddC(a, b, c) ==
    IF a = << >> /\ b = << >> THEN (IF c = 0 THEN << >> ELSE <<c>>)
    ELSE LET x == IF a = << >> THEN 0 ELSE Head(a)
             y == IF b = << >> THEN 0 ELSE Head(b)
             s == x + y + c
         IN  <<s % Base>> \o BigAddC(IF a = << >> THEN a ELSE Tail(a),
                                     IF b = << >> THEN b ELSE Tail(b),
                                     s \div Base)

BigAdd(a, b) == BigAddC(a, b, 0)

\* a - b for a >= b
RECURSIVE BigSubB(_, _, _)
BigSubB(a, b, w) ==
    IF a = << >> THEN << >>
    ELSE LET y == IF b = << >> THEN 0 ELSE Head(b)
             d == Head(a) - y - w
         IN  <<IF d < 0 THEN d + Base ELSE d>>
                \o BigSubB(Tail(a), IF b = << >> THEN b ELSE Tail(b),
                           IF d < 0 THEN 1 ELSE 0)

BigSub(a, b) == BigNorm(BigSubB(a, b, 0))

\* -1, 0, 1 as a < b, a = b, a > b (both normalised)
RECURSIVE BigCmpFrom(_, _, _)
BigCmpFrom(a, b, i) ==
    IF i = 0 THEN 0
    ELSE IF a[i] < b[i] THEN -1
    ELSE IF a[i] > b[i] THEN 1
    ELSE BigCmpFrom(a, b, i - 1)

BigCmp(a, b) ==
    IF Len(a) < Len(b) THEN -1
    ELSE IF Len(a) > Len(b) THEN 1
    ELSE BigCmpFrom(a, b, Len(a))

RECURSIVE BigMulSmallC(_, _, _)
BigMulSmallC(a, k, c) ==
    IF a = << >> THEN (IF c = 0 THEN << >> ELSE <<c>>)
    ELSE LET p == Head(a) * k + c
         IN  <<p % Base>> \o BigMulSmallC(Tail(a), k, p \div Base)

\* a * k for 0 <= k < Base
BigMulSmall(a, k) == BigNorm(BigMulSmallC(a, k, 0))

RECURSIVE BigMul(_, _)
BigMul(a, b) ==
    IF b = << >> \/ a = << >> THEN << >>
    ELSE BigAdd(BigMulSmall(a, Head(b)), <<0>> \o BigMul(a, Tail(b)))

RECURSIVE IntBitLen(_)
IntBitLen(n) == IF n = 0 THEN 0 ELSE 1 + IntBitLen(n \div 2)

BigBitLen(a) ==
    IF a = << >> THEN 0 ELSE LimbBits * (Len(a) - 1) + IntBitLen(a[Len(a)])

\* a * 2^s
RECURSIVE BigShl(_, _)
BigShl(a, s) ==
    IF a = << >> THEN << >>
    ELSE IF s >= LimbBits THEN <<0>> \o BigShl(a, s - LimbBits)
    ELSE BigMulSmall(a, Pow2(s))

\* floor(a / 2^s) for 0 <= s < LimbBits
RECURSIVE BigShrBits(_, _)
BigShrBits(a, s) ==
    IF a = << >> THEN << >>
    ELSE LET hi == IF Len(a) > 1 THEN a[2] % Pow2(s) ELSE 0
         IN  <<(Head(a) \div Pow2(s)) + hi * Pow2(LimbBits - s)>>
                \o BigShrBits(Tail(a), s)

\* floor(a / 2^s)
BigShr(a, s) ==
    LET k == s \div LimbBits
    IN  IF k >= Len(a) THEN << >>
        ELSE BigNorm(BigShrBits(SubSeq(a, k + 1, Len(a)), s % LimbBits))

\* a mod 2^s
BigLow(a, s) == BigSub(a, BigShl(BigShr(a, s), s))

BigOdd(a) == a # << >> /\ a[1] % 2 = 1

\* One digit of a long division: the largest q with q * d <= r, for
\* r < d * Base and d with its top limb >= Base / 2.  The estimate from the
\* top limbs is at most 2 too large (Knuth, TAOCP 4.3.1, algorithm D).
RECURSIVE BigDivFix(_, _, _)
BigDivFix(r, d, est) ==
    Strict(BigMulSmall(d, est), LAMBDA t :
        IF BigCmp(t, r) > 0 THEN BigDivFix(r, d, est - 1)
        ELSE [q |-> est, r |-> BigSub(r, t)])

BigDivDigit(r, d) ==
    LET L   == Len(d)
        top == (IF Len(r) > L THEN r[L + 1] * Base ELSE 0)
                 + (IF Len(r) >= L THEN r[L] ELSE 0)
        est == top \div d[L]
    IN  BigDivFix(r, d, IF est > Base - 1 THEN Base - 1 ELSE est)

\* Long division of the limbs n[1..i] into the state st = [q, r] (the
\* quotient limbs produced so far and the remainder r < d)
RECURSIVE BigDivLimbs(_, _, _, _)
BigDivLimbs(n, i, st, d) ==
    IF i = 0 THEN [q |-> BigNorm(st.q), r |-> st.r]
    ELSE Strict(BigDivDigit(BigNorm(<<n[i]>> \o st.r), d), LAMBDA g :
           BigDivLimbs(n, i - 1, [q |-> <<g.q>> \o st.q, r |-> g.r], d))

\* floor(n / d) and n mod d, for d with its top limb >= Base / 2
BigDivMod(n, d) == BigDivLimbs(n, Len(n), [q |-> << >>, r |-> << >>], d)

\* The float nearest to n * 2^e (n > 0); `sticky` says that the exact value
\* lies strictly above n * 2^e and below (n + 1) * 2^e.
FRoundDown(n, e, sticky, s) ==
    LET half == BigShl(<<1>>, s - 1)
        up(q, c) == c > 0 \/ (c = 0 /\ (sticky \/ BigOdd(q)))
        fit(q1)  == IF BigBitLen(q1) > MantBits
                    THEN [m |-> BigShr(q1, 1), e |-> e + s + 1]
                    ELSE [m |-> q1, e |-> e + s]
    IN  Strict(BigShr(n, s), LAMBDA q :
          Strict(BigCmp(BigSub(n, BigShl(q, s)), half), LAMBDA c :
            Strict(IF up(q, c) THEN BigAdd(q, <<1>>) ELSE q, fit)))

FRound(n, e, sticky) ==
    LET L == BigBitLen(n)
    IN  IF L <= MantBits
        THEN [m |-> BigShl(n, MantBits - L), e |-> e - (MantBits - L)]
        ELSE FRoundDown(n, e, sticky, L - MantBits)

\* float(n) for an int n > 0 below 2^31: exact
FOfInt(n) == Strict(BigOfInt(n), LAMBDA b : FRound(b, 0, FALSE))

\* x * y
FMul(x, y) ==
    Strict(BigMul(x.m, y.m), LAMBDA p : FRound(p, x.e + y.e, FALSE))

\* x / y: MantBits + 2 quotient bits and a sticky bit, then rounded
FDiv(x, y) ==
    LET norm == (LimbBits - (MantBits % LimbBits)) % LimbBits
    IN  Strict(BigShl(x.m, MantBits + 2 + norm), LAMBDA n :
          Strict(BigShl(y.m, norm), LAMBDA d :
            Strict(BigDivMod(n, d), LAMBDA g :
              FRound(g.q, x.e - y.e - (MantBits + 2), g.r # << >>))))

\* x < y
FLess(x, y) ==
    \/ x.e < y.e
    \/ x.e = y.e /\ BigCmp(x.m, y.m) < 0

\* round(x * 10) to an integer, ties to even on the exact binary value:
\* the digits of f"{x:.1f}" (x < 2^17)
FTenths(x) ==
    LET n    == BigMulSmall(x.m, 10)
        s    == 0 - x.e
        q    == BigShr(n, s)
        rem  == BigLow(n, s)
        half == BigShl(<<1>>, s - 1)
        c    == BigCmp(rem, half)
        qi   == IF q = << >> THEN 0
                ELSE q[1] + (IF Len(q) > 1 THEN q[2] * Base ELSE 0)
    IN  IF c > 0 \/ (c = 0 /\ qi % 2 = 1) THEN qi + 1 ELSE qi


(***************************************************************************)
(* Bounds of the model.                                                    *)
(***************************************************************************)
\* user actions in one session
MaxActions == 3
\* the largest number of classes of the loaded classifier
MaxClasses == 4
\* predict_proba returns multiples of 1 / ProbUnits that sum to 1
ProbUnits == 2
\* slider positions tried around each threshold of pick_reasons
Radius == 1
\* fragments a tested label is made of
MaxFrags == 2

(***************************************************************************)
(* The widgets (lines 94-118, 174-176).  Float sliders move in steps of    *)
(* 0.1; their values are kept in tenths (2.0 is 20), which are the floats  *)
(* the literals 0.7, 1.2, 1.7, 2.0 of pick_reasons denote.                 *)
(***************************************************************************)
Range(f) == {f[i] : i \in DOMAIN f}

Min(a, b) == IF a < b THEN a ELSE b

GenderOptions == <<"Male", "Female">>
BinaryOptions == <<0, 1>>
FrequencyOptions == <<"no", "Sometimes", "Frequently", "Always">>
MtransOptions ==
    <<"Walking", "Bike", "Motorbike", "Public_Transportation", "Automobile">>

AgeMin == 14
AgeMax == 61
AgeDefault == 25
FcvcMin == 10
FcvcMax == 30
FcvcDefault == 20
NcpMin == 10
NcpMax == 40
NcpDefault == 30
Ch2oMin == 10
Ch2oMax == 30
Ch2oDefault == 20
FafMin == 0
FafMax == 30
FafDefault == 10
TueMin == 0
TueMax == 20
TueDefault == 10
HeightMin == 120
HeightMax == 230
HeightDefault == 170
WeightMin == 35
WeightMax == 200
WeightDefault == 70

\* the keys of st.session_state, in the order of build_row's parameters
Keys ==
    <<"gender", "age", "family", "favc", "fcvc", "ncp", "caec", "smoke",
      "ch2o", "scc", "faf", "tue", "calc", "mtrans">>

\* every value the widget with key k can return
Domain(k) ==
    CASE k = "gender" -> Range(GenderOptions)
      [] k = "age"    -> AgeMin .. AgeMax
      [] k \in {"family", "favc", "smoke", "scc"} -> Range(BinaryOptions)
      [] k = "fcvc"   -> FcvcMin .. FcvcMax
      [] k = "ncp"    -> NcpMin .. NcpMax
      [] k \in {"caec", "calc"} -> Range(FrequencyOptions)
      [] k = "ch2o"   -> Ch2oMin .. Ch2oMax
      [] k = "faf"    -> FafMin .. FafMax
      [] k = "tue"    -> TueMin .. TueMax
      [] k = "mtrans" -> Range(MtransOptions)

\* the widget values of the first run: a selectbox shows its first option,
\* a slider its `value` argument (session_state holds no key yet)
Defaults ==
    [gender |-> GenderOptions[1], age |-> AgeDefault,
     family |-> BinaryOptions[1], favc |-> BinaryOptions[1],
     fcvc |-> FcvcDefault, ncp |-> NcpDefault, caec |-> FrequencyOptions[1],
     smoke |-> BinaryOptions[1], ch2o |-> Ch2oDefault,
     scc |-> BinaryOptions[1], faf |-> FafDefault, tue |-> TueDefault,
     calc |-> FrequencyOptions[1], mtrans |-> MtransOptions[1]]

\* demo values with 5.0 meals per day, above the slider's maximum
DemoValues_ncp_5 ==
    [age |-> 25, gender |-> "Female", family |-> 1, favc |-> 1, fcvc |-> 20,
     ncp |-> 50, caec |-> "Sometimes", smoke |-> 0, ch2o |-> 20, scc |-> 0,
     faf |-> 10, tue |-> 10, calc |-> "Sometimes",
     mtrans |-> "Public_Transportation"]

\* what "Reset to demo values" writes into st.session_state (lines 79-92)
DemoValues ==
    [age |-> 25, gender |-> "Female", family |-> 1, favc |-> 1, fcvc |-> 20,
     ncp |-> 30, caec |-> "Sometimes", smoke |-> 0, ch2o |-> 20, scc |-> 0,
     faf |-> 10, tue |-> 10, calc |-> "Sometimes",
     mtrans |-> "Public_Transportation"]

(***************************************************************************)
(* Strings that the program searches are sequences of characters.          *)
(***************************************************************************)
Obesity == <<"O", "b", "e", "s", "i", "t", "y">>
Overweight == <<"O", "v", "e", "r", "w", "e", "i", "g", "h", "t">>
Normal == <<"N", "o", "r", "m", "a", "l">>
Insufficient ==
    <<"I", "n", "s", "u", "f", "f", "i", "c", "i", "e", "n", "t">>
UWeight == <<"_", "W", "e", "i", "g", "h", "t">>
UTypeI == <<"_", "T", "y", "p", "e", "_", "I">>
ULevelI == <<"_", "L", "e", "v", "e", "l", "_", "I">>

\* needle in label (Python's substring test on str)
In(needle, label) ==
    \E i \in 0 .. (Len(label) - Len(needle)) :
        SubSeq(label, i + 1, i + Len(needle)) = needle

\* interpret_label with "Overweight" tested before "Obesity"
interpret_label_overweight_first(label) ==
    IF In(Overweight, label) THEN "Moderate risk"
    ELSE IF In(Obesity, label) THEN "High risk"
    ELSE IF In(Normal, label) THEN "Healthy range"
    ELSE "Monitor"

\* lines 26-33
interpret_label(label) ==
    IF In(Obesity, label) THEN "High risk"
    ELSE IF In(Overweight, label) THEN "Moderate risk"
    ELSE IF In(Normal, label) THEN "Healthy range"
    ELSE "Monitor"

\* the reason texts of pick_reasons, in the order of its rules
Reasons ==
    <<"Family history increases baseline risk.",
      "Low physical activity (FAF) is linked with higher obesity levels.",
      "Higher screen time (TUE) suggests a more sedentary lifestyle.",
      "Frequent snacking between meals (CAEC) is associated with higher weight categories.",
      "Lower vegetable intake (FCVC) reduces a protective dietary factor.",
      "Lower water intake (CH2O) often correlates with less healthy routines.",
      "Frequent high-calorie food (FAVC) can increase risk when combined with low activity.",
      "Higher alcohol consumption (CALC) is associated with increased overweight risk in the data.">>

NoSignals ==
    "No strong rule-based risk signals detected from the selected inputs."

\* the thresholds 0.7, 1.2, 2.0 and 1.7 of lines 39-47, in tenths
FafLow == 7
TueHigh == 12
FcvcLow == 20
Ch2oLow == 17

\* pick_reasons without the cut to four reasons
pick_reasons_uncut(family, faf, tue, caec, fcvc, ch2o, favc, calc) ==
    LET append(c, i) == IF c THEN <<Reasons[i]>> ELSE << >>
    IN  append(family = 1, 1)
        \o append(faf <= FafLow, 2)
        \o append(tue >= TueHigh, 3)
        \o append(caec \in {"Frequently", "Always"}, 4)
        \o append(fcvc <= FcvcLow, 5)
        \o append(ch2o <= Ch2oLow, 6)
        \o append(favc = 1, 7)
        \o append(calc \in {"Frequently", "Always"}, 8)

\* pick_reasons with faf < 0.7 for faf <= 0.7
pick_reasons_strict_faf(family, faf, tue, caec, fcvc, ch2o, favc, calc) ==
    LET append(c, i) == IF c THEN <<Reasons[i]>> ELSE << >>
        reasons ==
            append(family = 1, 1)
            \o append(faf < FafLow, 2)
            \o append(tue >= TueHigh, 3)
            \o append(caec \in {"Frequently", "Always"}, 4)
            \o append(fcvc <= FcvcLow, 5)
            \o append(ch2o <= Ch2oLow, 6)
            \o append(favc = 1, 7)
            \o append(calc \in {"Frequently", "Always"}, 8)
    IN  SubSeq(reasons, 1, Min(4, Len(reasons)))

\* lines 35-53
pick_reasons(family, faf, tue, caec, fcvc, ch2o, favc, calc) ==
    LET append(c, i) == IF c THEN <<Reasons[i]>> ELSE << >>
        reasons ==
            append(family = 1, 1)
            \o append(faf <= FafLow, 2)
            \o append(tue >= TueHigh, 3)
            \o append(caec \in {"Frequently", "Always"}, 4)
            \o append(fcvc <= FcvcLow, 5)
            \o append(ch2o <= Ch2oLow, 6)
            \o append(favc = 1, 7)
            \o append(calc \in {"Frequently", "Always"}, 8)
    IN  SubSeq(reasons, 1, Min(4, Len(reasons)))

\* The column names loaded from feature_columns.pkl (line 16).  The file is
\* not part of the sources; these are the names of the dataset's columns.
feature_cols ==
    <<"Gender", "Age", "family_history_with_overweight", "FAVC", "FCVC",
      "NCP", "CAEC", "SMOKE", "CH2O", "SCC", "FAF", "TUE", "CALC", "MTRANS">>

\* build_row with family and favc in each other's place
build_row_swapped(gender, age, family, favc, fcvc, ncp, caec, smoke, ch2o, scc, faf, tue, calc, mtrans) ==
    LET row == <<gender, age, favc, family, fcvc, ncp, caec, smoke, ch2o,
                 scc, faf, tue, calc, mtrans>>
        pos(c) == CHOOSE i \in 1 .. Len(feature_cols) : feature_cols[i] = c
    IN  <<[c \in Range(feature_cols) |-> row[pos(c)]]>>

\* lines 22-24: a data frame is the sequence of its rows, a row maps each
\* column name to the value at the column's position
build_row(gender, age, family, favc, fcvc, ncp, caec, smoke, ch2o, scc, faf, tue, calc, mtrans) ==
    LET row == <<gender, age, family, favc, fcvc, ncp, caec, smoke, ch2o,
                 scc, faf, tue, calc, mtrans>>
        pos(c) == CHOOSE i \in 1 .. Len(feature_cols) : feature_cols[i] = c
    IN  <<[c \in Range(feature_cols) |-> row[pos(c)]]>>

(***************************************************************************)
(* The BMI check (lines 178-194).                                          *)
(***************************************************************************)
\* the float literals 18.5, 25 and 30
Float18_5 == FDiv(FOfInt(37), FOfInt(2))
Float25 == FOfInt(25)
Float30 == FOfInt(30)
Float100 == FOfInt(100)

Underweight ==
    "info: You're lighter than a feather - maybe grab a sandwich and a smoothie!"
Healthy ==
    "success: Perfectly shaped - your body called, it says 'keep it up!'"
Cuddle ==
    "warning: You're in the 'extra cuddle mode' zone - a bit more movement could help!"
BossLevel ==
    "error: You're in 'boss-level mass' mode - consider healthier habits (and maybe fewer midnight snacks)."

\* lines 185-192
bmi_comment(bmi) ==
    IF FLess(bmi, Float18_5) THEN Underweight
    ELSE IF FLess(bmi, Float25) THEN Healthy
    ELSE IF FLess(bmi, Float30) THEN Cuddle
    ELSE BossLevel

\* lines 179-192: what a click on "Check my BMI" renders; `subheader` holds
\* the digits of f"{bmi:.1f}" (250 for "25.0").  height_cm / 100 is the
\* correctly rounded quotient of two ints; height_m ** 2 is C's pow, which
\* returns the correctly rounded square for every height the widget allows.
check_bmi(height, weight) ==
    Strict(FDiv(FOfInt(height), Float100), LAMBDA height_m :
      Strict(FMul(height_m, height_m), LAMBDA squared :
        Strict(FDiv(FOfInt(weight), squared), LAMBDA bmi :
          [subheader |-> FTenths(bmi), comment |-> bmi_comment(bmi)])))

(***************************************************************************)
(* The classifier loaded from obesity_model.pkl (line 15).  The file is    *)
(* not part of the sources: predict and predict_proba may return any label *)
(* of classes_ and any probability vector over classes_.                   *)
(***************************************************************************)
\* the labels of the dataset, in the order of classes_
ModelClasses ==
    <<Insufficient \o UWeight, Normal \o UWeight, Obesity \o UTypeI,
      Obesity \o UTypeI \o <<"I">>, Obesity \o UTypeI \o <<"I", "I">>,
      Overweight \o ULevelI, Overweight \o ULevelI \o <<"I">>>>

ClassLists ==
    {SubSeq(ModelClasses, 1, n) : n \in 2 .. Min(MaxClasses, Len(ModelClasses))}

RECURSIVE Sum(_, _)
Sum(p, n) == IF n = 0 THEN 0 ELSE p[n] + Sum(p, n - 1)

\* the vectors predict_proba(data)[0] can be, in units of 1 / ProbUnits
ProbaVectors(n) == {p \in [1 .. n -> 0 .. ProbUnits] : Sum(p, n) = ProbUnits}

Orders(n) ==
    {o \in [1 .. n -> 1 .. n] : \A i, j \in 1 .. n : o[i] = o[j] => i = j}

\* line 148: pd.DataFrame({"Category": model.classes_, "Probability": proba})
class_frame(cls, proba) ==
    [i \in 1 .. Len(cls) |-> [Category |-> cls[i], Probability |-> proba[i]]]

\* ascending=True
Ascending(df, o) ==
    \A i \in 1 .. Len(df) - 1 :
        df[o[i]].Probability <= df[o[i + 1]].Probability

\* ascending=False: the rows in the order o are in descending order
Descending(df, o) ==
    \A i \in 1 .. Len(df) - 1 :
        df[o[i]].Probability >= df[o[i + 1]].Probability

\* line 149: every frame sort_values("Probability", ascending=False) can
\* return; the default sort is not stable, so rows of equal probability
\* come in any order.  reset_index renumbers the rows from the first.
sort_values(df) ==
    {[i \in 1 .. Len(df) |-> df[o[i]]] :
        o \in {o \in Orders(Len(df)) : Descending(df, o)}}

\* DataFrame.head(n)
head(df, n) == SubSeq(df, 1, Min(n, Len(df)))

\* lines 139-146: the box the prediction is shown in
result_box(risk_band) ==
    CASE risk_band = "High risk" -> "error"
      [] risk_band = "Moderate risk" -> "warning"
      [] risk_band = "Healthy range" -> "success"
      [] OTHER -> "info"

(***************************************************************************)
(* State.                                                                  *)
(***************************************************************************)
VARIABLES
    classes,        \* model.classes_ of the loaded classifier
    session_state,  \* st.session_state: the values of the 14 keyed widgets
    height_cm,      \* the value of the "Height (cm)" number input
    weight_kg,      \* the value of the "Weight (kg)" number input
    trigger,        \* what caused the last run of the script
    data,           \* the frame build_row returned in the last run
    prediction,     \* what the last run rendered under "Prediction":
                    \* << >> or one record of the Predict handler's results
    bmi_result,     \* what the last run rendered under the BMI button
    actions         \* user actions so far

vars ==
    <<classes, session_state, height_cm, weight_kg, trigger, data,
      prediction, bmi_result, actions>>

\* lines 131-163: the results of the Predict handler for the row `row`,
\* the classifier's answers pred and proba and the sorted frame prob_df
predict_results(ss, row, pred, proba, prob_df) ==
    LET risk_band == interpret_label(pred)
        reasons   == pick_reasons(ss.family, ss.faf, ss.tue, ss.caec,
                                  ss.fcvc, ss.ch2o, ss.favc, ss.calc)
    IN  [data      |-> row,
         pred_str  |-> pred,
         proba     |-> proba,
         risk_band |-> risk_band,
         box       |-> result_box(risk_band),
         prob_df   |-> prob_df,
         top3      |-> head(prob_df, 3),
         reasons   |-> reasons,
         why       |-> IF reasons # << >> THEN reasons ELSE <<NoSignals>>]

\* One run of the script (lines 70-194) with the widget values ss, h, w;
\* `button` is the button whose click caused the run ("" when none), out
\* the classifier's answers and the sorted frame of a Predict run.
script(ss, h, w, button, out) ==
    LET row == build_row(ss.gender, ss.age, ss.family, ss.favc, ss.fcvc,
                         ss.ncp, ss.caec, ss.smoke, ss.ch2o, ss.scc, ss.faf,
                         ss.tue, ss.calc, ss.mtrans)
    IN  [data       |-> row,
         prediction |-> IF button = "Predict"
                        THEN <<predict_results(ss, row, out.pred, out.proba,
                                               out.prob_df)>>
                        ELSE << >>,
         bmi_result |-> IF button = "Check my BMI"
                        THEN <<check_bmi(h, w)>>
                        ELSE << >>]

NoOutput == [pred |-> << >>, proba |-> << >>, prob_df |-> << >>]

\* a run that builds the record only for a Predict click and keeps the
\* earlier one otherwise
Rerun_stale(ss, h, w, button, out) ==
    \E run \in {script(ss, h, w, button, out)} :
        /\ data' = IF button = "Predict" THEN run.data ELSE data
        /\ prediction' = run.prediction
        /\ bmi_result' = run.bmi_result

\* a run that leaves the earlier prediction in the view
Rerun_sticky(ss, h, w, button, out) ==
    \E run \in {script(ss, h, w, button, out)} :
        /\ data' = run.data
        /\ prediction' = IF button = "Predict" THEN run.prediction
                         ELSE prediction
        /\ bmi_result' = run.bmi_result

\* the script runs and the state takes what it built and rendered
Rerun(ss, h, w, button, out) ==
    \E run \in {script(ss, h, w, button, out)} :
        /\ data' = run.data
        /\ prediction' = run.prediction
        /\ bmi_result' = run.bmi_result

\* The state after a run that no button caused: the first run when the page
\* is opened (how = "load", done = 0), or the run after the last of `done`
\* changes of widgets that left the widget values ss, h, w.
InitWith(cls, ss, h, w, how, done) ==
    /\ classes = cls
    /\ session_state = ss
    /\ height_cm = h
    /\ weight_kg = w
    /\ trigger = how
    /\ \E run \in {script(ss, h, w, "", NoOutput)} :
        /\ data = run.data
        /\ prediction = run.prediction
        /\ bmi_result = run.bmi_result
    /\ actions = done

(***************************************************************************)
(* User actions.  Each one changes a widget or clicks a button and makes   *)
(* Streamlit run the script again.                                         *)
(***************************************************************************)
\* the values the model tries for the widget with key k: every option of a
\* selectbox, both ends and the default of a slider
Picks(k) ==
    CASE k = "age"  -> {AgeMin, AgeDefault, AgeMax}
      [] k = "fcvc" -> {FcvcMin, FcvcDefault, FcvcMax}
      [] k = "ncp"  -> {NcpMin, NcpDefault, NcpMax}
      [] k = "ch2o" -> {Ch2oMin, Ch2oDefault, Ch2oMax}
      [] k = "faf"  -> {FafMin, FafDefault, FafMax}
      [] k = "tue"  -> {TueMin, TueDefault, TueMax}
      [] OTHER      -> Domain(k)

HeightPicks == {HeightMin, 160, HeightDefault, HeightMax}
WeightPicks == {WeightMin, 64, WeightDefault, WeightMax}

\* lines 94-118: the user changes the widget with key k to v
ChangeInput(k, v) ==
    /\ actions < MaxActions
    /\ v # session_state[k]
    /\ session_state' = [session_state EXCEPT ![k] = v]
    /\ trigger' = "input"
    /\ Rerun(session_state', height_cm, weight_kg, "", NoOutput)
    /\ actions' = actions + 1
    /\ UNCHANGED <<classes, height_cm, weight_kg>>

\* line 174
ChangeHeight(h) ==
    /\ actions < MaxActions
    /\ h # height_cm
    /\ height_cm' = h
    /\ trigger' = "height"
    /\ Rerun(session_state, h, weight_kg, "", NoOutput)
    /\ actions' = actions + 1
    /\ UNCHANGED <<classes, session_state, weight_kg>>

\* line 176
ChangeWeight(w) ==
    /\ actions < MaxActions
    /\ w # weight_kg
    /\ weight_kg' = w
    /\ trigger' = "weight"
    /\ Rerun(session_state, height_cm, w, "", NoOutput)
    /\ actions' = actions + 1
    /\ UNCHANGED <<classes, session_state, height_cm>>

\* a Reset that also puts height and weight back
Reset_all ==
    /\ actions < MaxActions
    /\ session_state' = DemoValues
    /\ trigger' = "Reset to demo values"
    /\ height_cm' = HeightDefault
    /\ weight_kg' = WeightDefault
    /\ Rerun(session_state', height_cm', weight_kg', "Reset to demo values",
             NoOutput)
    /\ actions' = actions + 1
    /\ UNCHANGED classes

\* lines 78-92, then the rest of the run
Reset ==
    /\ actions < MaxActions
    /\ session_state' = DemoValues
    /\ trigger' = "Reset to demo values"
    /\ Rerun(session_state', height_cm, weight_kg, "Reset to demo values",
             NoOutput)
    /\ actions' = actions + 1
    /\ UNCHANGED <<classes, height_cm, weight_kg>>

\* lines 130-163
Predict ==
    /\ actions < MaxActions
    /\ trigger' = "Predict"
    /\ \E pred \in Range(classes), proba \in ProbaVectors(Len(classes)) :
         \E prob_df \in sort_values(class_frame(classes, proba)) :
            Rerun(session_state, height_cm, weight_kg, "Predict",
                  [pred |-> pred, proba |-> proba, prob_df |-> prob_df])
    /\ actions' = actions + 1
    /\ UNCHANGED <<classes, session_state, height_cm, weight_kg>>

\* lines 178-194
CheckBMI ==
    /\ actions < MaxActions
    /\ trigger' = "Check my BMI"
    /\ Rerun(session_state, height_cm, weight_kg, "Check my BMI", NoOutput)
    /\ actions' = actions + 1
    /\ UNCHANGED <<classes, session_state, height_cm, weight_kg>>

ChangeSomeInput ==
    \E i \in 1 .. Len(Keys) : \E v \in Picks(Keys[i]) : ChangeInput(Keys[i], v)

ChangeSomeHeight == \E h \in HeightPicks : ChangeHeight(h)

ChangeSomeWeight == \E w \in WeightPicks : ChangeWeight(w)

(***************************************************************************)
(* The session: the page is opened with a classifier of two classes        *)
(* loaded, then the user acts.                                             *)
(***************************************************************************)
TwoClasses == SubSeq(ModelClasses, 1, 2)

Init ==
    InitWith(TwoClasses, Defaults, HeightDefault, WeightDefault, "load", 0)

Next ==
    \/ ChangeSomeInput
    \/ ChangeSomeHeight
    \/ ChangeSomeWeight
    \/ Reset
    \/ Predict
    \/ CheckBMI

Spec == Init /\ [][Next]_vars

(***************************************************************************)
(* The probability table: the page is opened with a classifier of any      *)
(* number of classes up to MaxClasses, the user's last action is Predict.  *)
(***************************************************************************)
InitProba ==
    \E cls \in ClassLists :
        InitWith(cls, Defaults, HeightDefault, WeightDefault, "load",
                 MaxActions - 1)

NextProba == Predict

SpecProba == InitProba /\ [][NextProba]_vars

(***************************************************************************)
(* The BMI check on every height and weight the number inputs allow: the   *)
(* user has typed a height and a weight and clicks the button.             *)
(***************************************************************************)
InitBMI ==
    \E h \in HeightMin .. HeightMax, w \in WeightMin .. WeightMax :
        InitWith(TwoClasses, Defaults, h, w, "weight", MaxActions - 1)

NextBMI == CheckBMI

SpecBMI == InitBMI /\ [][NextBMI]_vars

(***************************************************************************)
(* pick_reasons on the inputs around its thresholds: the user has set the  *)
(* eight widgets it reads and clicks Predict.                              *)
(***************************************************************************)
Near(t) == (t - Radius) .. (t + Radius)

InitReasons ==
    \E family \in Domain("family"), faf \in Near(FafLow),
       tue \in Near(TueHigh), caec \in Domain("caec"),
       fcvc \in Near(FcvcLow), ch2o \in Near(Ch2oLow),
       favc \in Domain("favc"), calc \in Domain("calc") :
        InitWith(TwoClasses,
                 [Defaults EXCEPT !.family = family, !.faf = faf,
                                  !.tue = tue, !.caec = caec,
                                  !.fcvc = fcvc, !.ch2o = ch2o,
                                  !.favc = favc, !.calc = calc],
                 HeightDefault, WeightDefault, "input", MaxActions - 1)

NextReasons == Predict

SpecReasons == InitReasons /\ [][NextReasons]_vars

(***************************************************************************)
(* interpret_label on labels put together from fragments: the classifier   *)
(* loaded knows the label, the user clicks Predict.                        *)
(***************************************************************************)
Fragments ==
    {Obesity, Overweight, Normal, Insufficient, UWeight, UTypeI,
     <<"O", "b", "e", "s">>, <<"i", "t", "y">>,
     <<"o", "b", "e", "s", "i", "t", "y">>,
     <<"O", "V", "E", "R", "W", "E", "I", "G", "H", "T">>,
     <<"n", "o", "r", "m", "a", "l">>, <<"O", "v", "e", "r">>,
     <<"w", "e", "i", "g", "h", "t">>}

RECURSIVE LabelsOf(_)
LabelsOf(n) ==
    IF n = 0 THEN {<< >>}
    ELSE LabelsOf(n - 1) \cup {l \o f : l \in LabelsOf(n - 1), f \in Fragments}

InitLabel ==
    \E label \in LabelsOf(MaxFrags) :
        InitWith(<<label, ModelClasses[1]>>, Defaults, HeightDefault,
                 WeightDefault, "load", MaxActions - 1)

NextLabel == Predict

SpecLabel == InitLabel /\ [][NextLabel]_vars

(***************************************************************************)
(* Properties.                                                             *)
(***************************************************************************)
PredictionShown == Len(prediction) = 1

BmiShown == Len(bmi_result) = 1

\* the band of the exact quotient weight / (height / 100)^2, in integers:
\* bmi < 18.5 iff 2 * 10000 * weight < 37 * height^2, and so on
ExactComment(height, weight) ==
    IF 20000 * weight < 37 * height * height THEN Underweight
    ELSE IF 10000 * weight < 25 * height * height THEN Healthy
    ELSE IF 10000 * weight < 30 * height * height THEN Cuddle
    ELSE BossLevel

\* C1: for every height in 120..230 and weight in 35..200 "Check my BMI"
\* shows the comment of the band that weight / (height/100)^2 lies in, the
\* values 18.5, 25 and 30 belonging to the upper band.
C1_BmiBands ==
    BmiShown => bmi_result[1].comment = ExactComment(height_cm, weight_kg)

\* C2: the risk band is "High risk" for a label containing "Obesity",
\* otherwise "Moderate risk" for one containing "Overweight", otherwise
\* "Healthy range" for one containing "Normal", otherwise "Monitor".
C2_InterpretLabel ==
    PredictionShown =>
        LET label == prediction[1].pred_str
            band  == prediction[1].risk_band
            ob    == In(Obesity, label)
            ov    == In(Overweight, label)
            no    == In(Normal, label)
        IN  /\ band \in {"High risk", "Moderate risk", "Healthy range", "Monitor"}
            /\ ob => band = "High risk"
            /\ (~ob /\ ov) => band = "Moderate risk"
            /\ (~ob /\ ~ov /\ no) => band = "Healthy range"
            /\ (~ob /\ ~ov /\ ~no) => band = "Monitor"

\* a label holding both "Obesity" and "Overweight" has been interpreted
C2_Witness ==
    /\ PredictionShown
    /\ In(Obesity, prediction[1].pred_str)
    /\ In(Overweight, prediction[1].pred_str)

\* the place of a reason text in the order of the rules
RulePos(r) == CHOOSE i \in 1 .. Len(Reasons) : Reasons[i] = r

\* C3: pick_reasons returns at most 4 reasons, each a reason text, without
\* duplicates and in the order of the rules (family, FAF, TUE, CAEC, FCVC,
\* CH2O, FAVC, CALC).
C3_ReasonsBounded ==
    PredictionShown =>
        LET rs == prediction[1].reasons
        IN  /\ Len(rs) <= 4
            /\ \A i \in 1 .. Len(rs) : rs[i] \in Range(Reasons)
            /\ \A i, j \in 1 .. Len(rs) :
                 i < j => RulePos(rs[i]) < RulePos(rs[j])

\* which rules fire for the inputs ss, with the thresholds in tenths
Fires(ss) ==
    <<ss.family = 1, ss.faf <= 7, ss.tue >= 12,
      ss.caec \in {"Frequently", "Always"}, ss.fcvc <= 20, ss.ch2o <= 17,
      ss.favc = 1, ss.calc \in {"Frequently", "Always"}>>

FiringBefore(ss, i) == Cardinality({j \in 1 .. i - 1 : Fires(ss)[j]})

\* more than four rules fire and four reasons are returned
C3_Witness ==
    /\ PredictionShown
    /\ FiringBefore(session_state, 9) > 4
    /\ Len(prediction[1].reasons) = 4

\* C4: every predictor input of the session lies in its widget's domain,
\* and so does every value of the row built from them.
C4_InputsInDomain ==
    LET ok(v) ==
            /\ v.gender \in {"Male", "Female"}
            /\ v.age \in 14 .. 61
            /\ v.family \in {0, 1} /\ v.favc \in {0, 1}
            /\ v.smoke \in {0, 1} /\ v.scc \in {0, 1}
            /\ v.fcvc \in 10 .. 30 /\ v.ch2o \in 10 .. 30
            /\ v.ncp \in 10 .. 40
            /\ v.faf \in 0 .. 30
            /\ v.tue \in 0 .. 20
            /\ v.caec \in {"no", "Sometimes", "Frequently", "Always"}
            /\ v.calc \in {"no", "Sometimes", "Frequently", "Always"}
            /\ v.mtrans \in {"Walking", "Bike", "Motorbike",
                             "Public_Transportation", "Automobile"}
    IN  /\ DOMAIN session_state = Range(Keys)
        /\ ok(session_state)
        /\ Len(data) = 1
        /\ ok([k \in Range(Keys) |->
                 data[1][feature_cols[CHOOSE i \in 1 .. Len(Keys) : Keys[i] = k]]])

\* Reset has written its values and the user has changed one of them since
C4_Witness ==
    /\ trigger = "input"
    /\ session_state # DemoValues
    /\ session_state.gender = "Female"
    /\ session_state.mtrans = "Public_Transportation"
    /\ session_state.favc = 1

\* C5 as stated: the record is created on a Predict click and by no other
\* user action (changing an input, Reset, Check my BMI).
C5_RecordOnlyOnPredict ==
    trigger \in {"input", "height", "weight", "Reset to demo values",
                 "Check my BMI"}
        => Len(data) = 0

CurrentRow ==
    build_row(session_state.gender, session_state.age, session_state.family,
              session_state.favc, session_state.fcvc, session_state.ncp,
              session_state.caec, session_state.smoke, session_state.ch2o,
              session_state.scc, session_state.faf, session_state.tue,
              session_state.calc, session_state.mtrans)

\* C5 as amended: every run of the script (the first one and the one after
\* every user action, not only a Predict click) builds the record anew from
\* the inputs current in that run, so the record of a state is never one
\* that an earlier interaction built from other inputs.
C5_RecordPerRun == data = CurrentRow

\* a run that a change of an input caused has built a record that differs
\* from the one of the first run
C5_Witness ==
    /\ trigger = "input"
    /\ data # build_row(Defaults.gender, Defaults.age, Defaults.family,
                        Defaults.favc, Defaults.fcvc, Defaults.ncp,
                        Defaults.caec, Defaults.smoke, Defaults.ch2o,
                        Defaults.scc, Defaults.faf, Defaults.tue,
                        Defaults.calc, Defaults.mtrans)

\* the frame df is one row that holds the value of input Keys[i] under the
\* i-th expected column, for each of the 14 columns and nothing else
RowOfInputs(df) ==
    /\ Len(df) = 1
    /\ DOMAIN df[1] = Range(feature_cols)
    /\ Cardinality(DOMAIN df[1]) = 14
    /\ \A i \in 1 .. 14 : df[1][feature_cols[i]] = session_state[Keys[i]]

\* C6: build_row gives one row with the 14 current input values, the i-th
\* argument under the i-th expected column, and the row given to the
\* classifier on Predict is the row of the inputs current at the click.
C6_BuildRow ==
    /\ RowOfInputs(data)
    /\ PredictionShown => RowOfInputs(prediction[1].data)

\* a prediction on inputs whose family and favc differ
C6_Witness ==
    /\ PredictionShown
    /\ session_state.family # session_state.favc
    /\ session_state # DemoValues

\* C7: a click on "Check my BMI" and a change of height or weight leave the
\* 14 predictor inputs unchanged, Predict and Reset leave height and weight
\* unchanged, and what the BMI check shows is determined by height and
\* weight alone.
C7_BmiIndependent ==
    [][/\ trigger' \in {"Check my BMI", "height", "weight"}
            => session_state' = session_state
       /\ trigger' \in {"Predict", "Reset to demo values"}
            => (height_cm' = height_cm /\ weight_kg' = weight_kg)
       /\ BmiShown' => bmi_result'[1] = check_bmi(height_cm', weight_kg')
      ]_vars

\* Reset has run with a height and a weight that are not the defaults
C7_Witness ==
    /\ trigger = "Reset to demo values"
    /\ height_cm # HeightDefault
    /\ weight_kg # WeightDefault

\* C8: the probability table holds each class once with its own
\* probability, in non-increasing order of probability; "Top 3" is its
\* first min(3, number of classes) rows, and no class left out of it has a
\* higher probability than one shown.
C8_ProbabilityTable ==
    PredictionShown =>
        LET v  == prediction[1]
            n  == Len(classes)
            df == v.prob_df
            k  == IF n < 3 THEN n ELSE 3
        IN  /\ Len(df) = n
            /\ \A c \in 1 .. n :
                 /\ Cardinality({i \in 1 .. n : df[i].Category = classes[c]}) = 1
                 /\ \E i \in 1 .. n :
                      df[i] = [Category |-> classes[c],
                               Probability |-> v.proba[c]]
            /\ \A i \in 1 .. n - 1 : df[i].Probability >= df[i + 1].Probability
            /\ Len(v.top3) = k
            /\ \A i \in 1 .. k : v.top3[i] = df[i]
            /\ \A c \in 1 .. n :
                 (\A i \in 1 .. k : v.top3[i].Category # classes[c])
                    => \A i \in 1 .. k : v.proba[c] <= v.top3[i].Probability

\* a table of more than three classes whose last class is more probable
\* than its first
C8_Witness ==
    /\ PredictionShown
    /\ Len(classes) > 3
    /\ prediction[1].proba[Len(classes)] > prediction[1].proba[1]

\* C9: pick_reasons returns the reasons of the first min(4, k) of the k
\* rules that fire, in the order of the rules, and the text "No strong
\* rule-based risk signals detected" is shown exactly when no rule fires.
C9_FirstFourFiring ==
    PredictionShown =>
        LET rs == prediction[1].reasons
            f  == Fires(session_state)
            k  == FiringBefore(session_state, 9)
        IN  /\ Len(rs) = (IF k < 4 THEN k ELSE 4)
            /\ \A i \in 1 .. 8 :
                 (Reasons[i] \in Range(rs))
                    <=> (f[i] /\ FiringBefore(session_state, i) < 4)
            /\ \A i, j \in 1 .. Len(rs) :
                 i < j => RulePos(rs[i]) < RulePos(rs[j])
            /\ (prediction[1].why = <<NoSignals>>) <=> (k = 0)
            /\ k > 0 => prediction[1].why = rs

\* the CALC rule fires after four others and its reason is left out
C9_Witness ==
    /\ PredictionShown
    /\ Fires(session_state)[8]
    /\ FiringBefore(session_state, 8) >= 4
    /\ Reasons[8] \notin Range(prediction[1].reasons)

\* C10: prediction results are in the view only in the run that a Predict
\* click caused, computed from the inputs of that run; the BMI result only
\* in the run that "Check my BMI" caused; never both.
C10_ResultsOnlyInOwnRun ==
    /\ PredictionShown =>
         /\ trigger = "Predict"
         /\ prediction[1].data = CurrentRow
         /\ prediction[1].reasons =
              pick_reasons(session_state.family, session_state.faf,
                           session_state.tue, session_state.caec,
                           session_state.fcvc, session_state.ch2o,
                           session_state.favc, session_state.calc)
    /\ BmiShown => trigger = "Check my BMI"
    /\ trigger \notin {"Predict", "Check my BMI"}
         => (~PredictionShown /\ ~BmiShown)
    /\ ~(PredictionShown /\ BmiShown)

\* a prediction on inputs the user has changed
C10_Witness ==
    /\ PredictionShown
    /\ session_state # Defaults
    /\ actions > 1

====
